---------------------------- MODULE Spec2Model ----------------------------
(***************************************************************************)
(* The exposure dashboard of WK.py as a state machine.                     *)
(*                                                                         *)
(* WK.py is a Streamlit script: every interaction with a widget runs the   *)
(* whole script again from the top over the loaded table.  One run is      *)
(* modelled as the sequence of its steps (client selection, stock          *)
(* selection, filtering, maturity window, maturity selection, exposure     *)
(* percentages, display, timeline matrix, scatter chart); Rerun starts     *)
(* the next run.                                                           *)
(*                                                                         *)
(* Conventions.                                                            *)
(*  - A DataFrame is the set of its rows (records).  Row order and the     *)
(*    index are not modelled.                                              *)
(*  - A date is a day number; day 0 is Monday 2024-01-08, so that          *)
(*    2024-01-10 is day 2 and 2024-02-10 is day 33.                        *)
(*  - An exposure amount is an integer number of currency units.           *)
(*  - A float column value is a record [kind, num, den]: the rational      *)
(*    num/den (den > 0) when kind = "num", and IEEE NaN, +inf, -inf        *)
(*    otherwise, as pandas produces them on a zero divisor.  Arithmetic    *)
(*    on "num" values is exact; the representation error of binary floats  *)
(*    is not modelled.                                                     *)
(*  - The widgets return what their options allow: any subset for a        *)
(*    multiselect, a full (start, end) range within [min_value, max_value] *)
(*    for the date picker.                                                 *)
(***************************************************************************)
EXTENDS Integers, FiniteSets, Sequences, TLC

VARIABLES
    df,                      \* the loaded table (WK.py:8-14)
    pc,                      \* position of the current run in the script
    selected_clients,        \* WK.py:25-31
    selected_stocks,         \* WK.py:41-47
    filtered_df,             \* WK.py:55-58
    selected_maturity_dates, \* WK.py:66-71, <<start, end>>
    products_maturing,       \* WK.py:74-80
    selected_products,       \* WK.py:83-87
    current_exposure,        \* WK.py:100-111
    future_exposure,         \* WK.py:116-127
    exposure_df,             \* WK.py:130-141
    heatmap_pivot,           \* WK.py:235-246
    executed,                \* the steps of the script the run has executed
    output,                  \* what the run has put on the page so far
    prev                     \* history: the previous completed run

vars == <<df, pc, selected_clients, selected_stocks, filtered_df,
          selected_maturity_dates, products_maturing, selected_products,
          current_exposure, future_exposure, exposure_df, heatmap_pivot,
          executed, output, prev>>

-----------------------------------------------------------------------------
(* Bounds of the model *)

\* most rows of a loaded table
MaxRows == 2
\* stocks of the one-client tables used for the sums of rounded percentages
WideStocks == 5

DaysPerWeek == 7

-----------------------------------------------------------------------------
(* Float values *)

Num(n, d) == [kind |-> "num", num |-> n, den |-> d]
NaN == [kind |-> "nan", num |-> 0, den |-> 1]
PosInf == [kind |-> "inf", num |-> 0, den |-> 1]
NegInf == [kind |-> "-inf", num |-> 0, den |-> 1]
Zero == Num(0, 1)

\* a / b of two float columns holding integers: NaN for 0/0, +-inf for x/0
Divide(a, b) ==
    IF b = 0
    THEN IF a = 0 THEN NaN ELSE IF a > 0 THEN PosInf ELSE NegInf
    ELSE IF b > 0 THEN Num(a, b) ELSE Num(-a, -b)

\* v * k for an integer k > 0
Times(v, k) == IF v.kind = "num" THEN Num(v.num * k, v.den) ELSE v

\* (amount / total) * 100
PercentOf(amount, total) == Times(Divide(amount, total), 100)

FillNa(v) == IF v.kind = "nan" THEN Zero ELSE v

\* n/d (d > 0) rounded to the nearest integer, ties to the even one
RoundHalfEven(n, d) ==
    LET q == n \div d
        r == n % d
    IN  IF 2 * r < d THEN q
        ELSE IF 2 * r > d THEN q + 1
        ELSE IF q % 2 = 0 THEN q ELSE q + 1

\* Round2 as it would be without the round(2) of WK.py:140-141
Round2Skipped(v) == v

\* Round2 as it would be if it cut the digits after the second decimal
Round2Truncating(v) ==
    IF v.kind = "num" THEN Num((v.num * 100) \div v.den, 100) ELSE v

\* Series.round(2): the nearest multiple of 1/100; NaN and +-inf are kept
Round2(v) ==
    IF v.kind = "num" THEN Num(RoundHalfEven(v.num * 100, v.den), 100) ELSE v

-----------------------------------------------------------------------------
(* Tables *)

Row(c, s, p, d, a) ==
    [client |-> c, stock |-> s, product |-> p, date |-> d, amount |-> a]

RECURSIVE SumAmount(_)
SumAmount(rows) ==
    IF rows = {} THEN 0
    ELSE LET r == CHOOSE x \in rows : TRUE
         IN  r.amount + SumAmount(rows \ {r})

Clients(table) == {r.client : r \in table}
Stocks(table) == {r.stock : r \in table}
MaturityDates(table) == {r.date : r \in table}

Min(S) == CHOOSE x \in S : \A y \in S : x <= y
Max(S) == CHOOSE x \in S : \A y \in S : x >= y

\* IsEmptySelection as it would be if the guard never stopped the run
IsEmptySelectionNever(selection) == FALSE

\* len(selection) == 0
IsEmptySelection(selection) == selection = {}

\* df[df['Full Name'].isin(clients) & df['Name'].isin(stocks)]
FilterRows(table, clientSel, stockSel) ==
    {r \in table : r.client \in clientSel /\ r.stock \in stockSel}

\* ProductsMaturing as it would be if it read the filtered rows
ProductsMaturingOfFiltered(table, window) ==
    {r.product :
        r \in {x \in filtered_df : x.date >= window[1] /\ x.date <= window[2]}}

\* df[(date >= start) & (date <= end)]['Product'].unique()
ProductsMaturing(table, window) ==
    {r.product : r \in {x \in table : x.date >= window[1] /\ x.date <= window[2]}}

\* rows.groupby(['Full Name', 'Name'])['Exposure Amount'].sum()
GroupExposure(rows) ==
    {[client |-> k[1], stock |-> k[2],
      amount |-> SumAmount({r \in rows : r.client = k[1] /\ r.stock = k[2]})] :
        k \in {<<r.client, r.stock>> : r \in rows}}

\* grouped.groupby('Full Name')[amount].sum(), as a function of the client
TotalPortfolio(grouped) ==
    [c \in Clients(grouped) |-> SumAmount({g \in grouped : g.client = c})]

\* merge with the per-client total and divide: one row per (client, stock)
ExposurePct(rows) ==
    LET grouped == GroupExposure(rows)
        total == TotalPortfolio(grouped)
    IN  {[client |-> g.client, stock |-> g.stock,
          pct |-> PercentOf(g.amount, total[g.client])] : g \in grouped}

\* FutureRows as it would be without the negation of WK.py:114
FutureRowsNotNegated(rows, products) == {r \in rows : r.product \in products}

\* filtered_df[~filtered_df['Product'].isin(selected_products)]
FutureRows(rows, products) == {r \in rows : r.product \notin products}

Keys(table) == {<<r.client, r.stock>> : r \in table}

\* OuterMerge as it would be with how='inner'
InnerMerge(current, future) ==
    {[client |-> c.client, stock |-> c.stock, current |-> c.pct, future |-> f.pct] :
        <<c, f>> \in {p \in current \X future :
                        p[1].client = p[2].client /\ p[1].stock = p[2].stock}}

\* pd.merge(current, future, on=['Full Name', 'Name'], how='outer'):
\* a key of one side only gets NaN in the other side's column
OuterMerge(current, future) ==
    {[client |-> c.client, stock |-> c.stock, current |-> c.pct, future |-> f.pct] :
        <<c, f>> \in {p \in current \X future :
                        p[1].client = p[2].client /\ p[1].stock = p[2].stock}}
    \cup {[client |-> c.client, stock |-> c.stock, current |-> c.pct, future |-> NaN] :
        c \in {x \in current : <<x.client, x.stock>> \notin Keys(future)}}
    \cup {[client |-> f.client, stock |-> f.stock, current |-> NaN, future |-> f.pct] :
        f \in {x \in future : <<x.client, x.stock>> \notin Keys(current)}}

\* fillna(0) then round(2) on both percentage columns
FillAndRound(merged) ==
    {[client |-> m.client, stock |-> m.stock,
      current |-> Round2(FillNa(m.current)),
      future |-> Round2(FillNa(m.future))] : m \in merged}

\* dt.to_period('W').dt.start_time: the Monday of the date's week
WeekStart(d) == d - (d % DaysPerWeek)

\* filtered_df.groupby(['Name', 'Week'])['Exposure Amount'].sum() pivoted on
\* (Name, Week): a cell per (stock, week) that has a row
TimelinePivot(rows) ==
    {[stock |-> k[1], week |-> k[2],
      value |-> SumAmount({r \in rows : r.stock = k[1] /\ WeekStart(r.date) = k[2]})] :
        k \in {<<r.stock, WeekStart(r.date)>> : r \in rows}}

\* pd.date_range(start, end, freq='W-MON') between two Mondays
WeekRange(start, end) ==
    {w \in start..end : (w - start) % DaysPerWeek = 0}

\* the weeks of the rows, from the first to the last one
AllWeeks(rows) ==
    LET weeks == {WeekStart(r.date) : r \in rows}
    IN  WeekRange(Min(weeks), Max(weeks))

\* Reindex as it would be if only the columns were reindexed
ReindexColumnsOnly(pivot, all_stocks, all_weeks) ==
    {[stock |-> s, week |-> w,
      value |-> IF \E c \in pivot : c.stock = s /\ c.week = w
                THEN (CHOOSE c \in pivot : c.stock = s /\ c.week = w).value
                ELSE 0] : <<s, w>> \in {c.stock : c \in pivot} \X all_weeks}

\* pivot.reindex(index=all_stocks, columns=all_weeks, fill_value=0)
Reindex(pivot, all_stocks, all_weeks) ==
    {[stock |-> s, week |-> w,
      value |-> IF \E c \in pivot : c.stock = s /\ c.week = w
                THEN (CHOOSE c \in pivot : c.stock = s /\ c.week = w).value
                ELSE 0] : <<s, w>> \in all_stocks \X all_weeks}

-----------------------------------------------------------------------------
(* The tables a run may have loaded *)

ClientNames == {"ClientA", "ClientB"}
StockNames == {"StockX", "StockY"}
ProductNames == {"ProdA", "ProdB"}

\* rows of any shape: two clients, two stocks, two products, three dates
\* (the Saturday and the Sunday of the week of day 0, the Monday of the week
\* of day 14), unit amounts
ShapeRows ==
    {Row(c, s, p, d, 1) :
        c \in ClientNames, s \in StockNames, p \in ProductNames, d \in {5, 6, 14}}

\* rows with amounts of either sign and zero, all maturing on day 6
SignedRows ==
    {Row(c, s, p, 6, a) :
        c \in ClientNames, s \in StockNames, p \in ProductNames,
        a \in {-1, 0, 1, 2}}

\* rows whose product fixes the maturity date, unit amounts
ProductRows ==
    {Row(c, s, "ProdA", 6, 1) : c \in ClientNames, s \in StockNames}
    \cup {Row(c, s, "ProdB", 14, 1) : c \in ClientNames, s \in StockNames}

RECURSIVE RowSets(_, _)
RowSets(universe, n) ==
    IF n = 0 THEN {{}}
    ELSE LET smaller == RowSets(universe, n - 1)
         IN  smaller \cup {s \cup {r} : s \in smaller, r \in universe}

\* the example of the specification's section 8
ExampleDf ==
    {Row("ClientA", "StockX", "ProdA", 2, 1000),
     Row("ClientA", "StockY", "ProdB", 33, 1000)}

\* two clients in stock X in one week, a week without a maturity, stock Y
TimelineDf ==
    {Row("ClientA", "StockX", "ProdA", 5, 1),
     Row("ClientB", "StockX", "ProdA", 6, 2),
     Row("ClientA", "StockX", "ProdB", 14, 1),
     Row("ClientA", "StockY", "ProdB", 14, 1)}

Datasets ==
    RowSets(ShapeRows, MaxRows) \cup RowSets(SignedRows, MaxRows)
        \cup {ExampleDf, TimelineDf}

\* the stocks of the wide tables, named by their number
WideStockNames == 1..WideStocks

\* one client holding WideStocks stocks, one row each, of amount -1, 1 or 3,
\* in alternating products, all maturing on day 6
WideDatasets ==
    {{Row("ClientA", s, IF s % 2 = 0 THEN "ProdA" ELSE "ProdB", 6, amt[s]) :
          s \in WideStockNames} :
        amt \in [WideStockNames -> {-1, 1, 3}]}

-----------------------------------------------------------------------------
(* The run *)

\* prev is a history variable: it is no state of the program.  With
\* prev.track it holds the selections and the results of the last run that
\* reached the end of the script, for the statements that compare two runs.
History(track) ==
    [track |-> track, valid |-> FALSE, clients |-> {}, stocks |-> {},
     window |-> <<0, 0>>, products |-> {}, filtered |-> {}, exposure |-> {},
     pivot |-> {}]

ThisRun ==
    [track |-> TRUE, valid |-> TRUE, clients |-> selected_clients,
     stocks |-> selected_stocks, window |-> selected_maturity_dates,
     products |-> selected_products, filtered |-> filtered_df,
     exposure |-> exposure_df, pivot |-> heatmap_pivot]

Fresh ==
    /\ pc = "clients"
    /\ selected_clients = {}
    /\ selected_stocks = {}
    /\ filtered_df = {}
    /\ selected_maturity_dates = <<0, 0>>
    /\ products_maturing = {}
    /\ selected_products = {}
    /\ current_exposure = {}
    /\ future_exposure = {}
    /\ exposure_df = {}
    /\ heatmap_pivot = {}
    /\ executed = {}
    /\ output = {}

Init == df \in Datasets /\ Fresh /\ prev = History(FALSE)

InitWide == df \in WideDatasets /\ Fresh /\ prev = History(FALSE)

InitRerun == df \in RowSets(ProductRows, MaxRows) /\ Fresh /\ prev = History(TRUE)

\* st.warning(...) and st.stop()
Halt ==
    /\ pc' = "halted"
    /\ output' = output \cup {"warning"}

\* WK.py:22-36
SelectClients ==
    /\ pc = "clients"
    /\ \E all \in BOOLEAN, picked \in SUBSET Clients(df) :
         LET selection == IF all THEN Clients(df) ELSE picked
         IN  /\ selected_clients' = selection
             /\ IF IsEmptySelection(selection)
                THEN Halt
                ELSE pc' = "stocks" /\ output' = output
    /\ executed' = executed \cup {"select_clients"}
    /\ UNCHANGED <<df, selected_stocks, filtered_df, selected_maturity_dates,
                   products_maturing, selected_products, current_exposure,
                   future_exposure, exposure_df, heatmap_pivot, prev>>

\* WK.py:38-52
SelectStocks ==
    /\ pc = "stocks"
    /\ \E all \in BOOLEAN, picked \in SUBSET Stocks(df) :
         LET selection == IF all THEN Stocks(df) ELSE picked
         IN  /\ selected_stocks' = selection
             /\ IF IsEmptySelection(selection)
                THEN Halt
                ELSE pc' = "filter" /\ output' = output
    /\ executed' = executed \cup {"select_stocks"}
    /\ UNCHANGED <<df, selected_clients, filtered_df, selected_maturity_dates,
                   products_maturing, selected_products, current_exposure,
                   future_exposure, exposure_df, heatmap_pivot, prev>>

\* WK.py:54-58
FilterData ==
    /\ pc = "filter"
    /\ filtered_df' = FilterRows(df, selected_clients, selected_stocks)
    /\ pc' = "dates"
    /\ executed' = executed \cup {"filter"}
    /\ UNCHANGED <<df, selected_clients, selected_stocks, selected_maturity_dates,
                   products_maturing, selected_products, current_exposure,
                   future_exposure, exposure_df, heatmap_pivot, output, prev>>

\* The days the range picker can return that differ in the rows they cover:
\* the maturity dates of df and the day after each, within [min, max]
\* (min_value and max_value of the picker, WK.py:61-62 and 69-70).
PickableDays(table) ==
    LET dates == MaturityDates(table)
    IN  {d \in Min(dates)..Max(dates) : d \in dates \/ d - 1 \in dates}

\* WK.py:60-71.  The picker is taken to return a full range (start, end)
\* with start <= end inside [min_value, max_value].
SelectMaturityDates ==
    /\ pc = "dates"
    /\ \E start \in PickableDays(df), end \in PickableDays(df) :
         /\ start <= end
         /\ selected_maturity_dates' = <<start, end>>
    /\ pc' = "products"
    /\ executed' = executed \cup {"select_dates"}
    /\ UNCHANGED <<df, selected_clients, selected_stocks, filtered_df,
                   products_maturing, selected_products, current_exposure,
                   future_exposure, exposure_df, heatmap_pivot, output, prev>>

\* WK.py:73-92
SelectProducts ==
    /\ pc = "products"
    /\ products_maturing' = ProductsMaturing(df, selected_maturity_dates)
    /\ \E picked \in SUBSET products_maturing' :
         /\ selected_products' = picked
         /\ IF IsEmptySelection(picked)
            THEN Halt
            ELSE pc' = "exposure" /\ output' = output
    /\ executed' = executed \cup {"select_products"}
    /\ UNCHANGED <<df, selected_clients, selected_stocks, filtered_df,
                   selected_maturity_dates, current_exposure, future_exposure,
                   exposure_df, heatmap_pivot, prev>>

\* CurrentRows as it would be if WK.py:100 grouped the rows of WK.py:116
CurrentRowsOfFuture == {r \in filtered_df : r.product \notin selected_products}

\* the rows WK.py:100 groups for the current exposure
CurrentRows == filtered_df

\* WK.py:94-141
ComputeExposure ==
    /\ pc = "exposure"
    /\ current_exposure' = ExposurePct(CurrentRows)
    /\ future_exposure' = ExposurePct(FutureRows(filtered_df, selected_products))
    /\ exposure_df' = FillAndRound(OuterMerge(current_exposure', future_exposure'))
    /\ pc' = "display"
    /\ executed' = executed \cup {"exposure"}
    /\ UNCHANGED <<df, selected_clients, selected_stocks, filtered_df,
                   selected_maturity_dates, products_maturing, selected_products,
                   heatmap_pivot, output, prev>>

\* WK.py:143-222
DisplayExposure ==
    /\ pc = "display"
    /\ output' = output \cup {"exposure_table", "csv", "exposure_heatmaps"}
    /\ pc' = "timeline"
    /\ executed' = executed \cup {"display"}
    /\ UNCHANGED <<df, selected_clients, selected_stocks, filtered_df,
                   selected_maturity_dates, products_maturing, selected_products,
                   current_exposure, future_exposure, exposure_df, heatmap_pivot,
                   prev>>

\* WK.py:224-265.  With no filtered row the first and the last week are NaT
\* and pd.date_range raises ValueError (WK.py:244): the run ends there.
BuildTimeline ==
    /\ pc = "timeline"
    /\ IF filtered_df = {}
       THEN /\ pc' = "error"
            /\ UNCHANGED <<heatmap_pivot, output>>
       ELSE /\ heatmap_pivot' =
                   Reindex(TimelinePivot(filtered_df), Stocks(df), AllWeeks(filtered_df))
            /\ output' = output \cup {"timeline_heatmap"}
            /\ pc' = "scatter"
    /\ executed' = executed \cup {"timeline"}
    /\ UNCHANGED <<df, selected_clients, selected_stocks, filtered_df,
                   selected_maturity_dates, products_maturing, selected_products,
                   current_exposure, future_exposure, exposure_df, prev>>

\* WK.py:267-342
ShowScatter ==
    /\ pc = "scatter"
    /\ output' = output \cup {"scatter"}
    /\ pc' = "done"
    /\ executed' = executed \cup {"scatter"}
    /\ UNCHANGED <<df, selected_clients, selected_stocks, filtered_df,
                   selected_maturity_dates, products_maturing, selected_products,
                   current_exposure, future_exposure, exposure_df, heatmap_pivot,
                   prev>>

\* A widget changes and Streamlit runs the script again over the same df.
Rerun ==
    /\ pc \in {"halted", "error", "done"}
    /\ pc' = "clients"
    /\ selected_clients' = {}
    /\ selected_stocks' = {}
    /\ filtered_df' = {}
    /\ selected_maturity_dates' = <<0, 0>>
    /\ products_maturing' = {}
    /\ selected_products' = {}
    /\ current_exposure' = {}
    /\ future_exposure' = {}
    /\ exposure_df' = {}
    /\ heatmap_pivot' = {}
    /\ executed' = {}
    /\ output' = {}
    /\ prev' = IF prev.track /\ pc = "done" THEN ThisRun ELSE prev
    /\ UNCHANGED df

Next ==
    \/ SelectClients
    \/ SelectStocks
    \/ FilterData
    \/ SelectMaturityDates
    \/ SelectProducts
    \/ ComputeExposure
    \/ DisplayExposure
    \/ BuildTimeline
    \/ ShowScatter
    \/ Rerun

Spec == Init /\ [][Next]_vars

\* the runs over the one-client tables of many stocks
SpecWide == InitWide /\ [][Next]_vars

\* the runs with the history of the previous run
SpecRerun == InitRerun /\ [][Next]_vars

-----------------------------------------------------------------------------
(* Vocabulary of the properties *)

\* the run is past the three selection guards
PassedValidation ==
    pc \in {"exposure", "display", "timeline", "scatter", "done", "error"}

\* exposure_df holds the table of this run
ExposureComputed == pc \in {"display", "timeline", "scatter", "done", "error"}

\* heatmap_pivot holds the timeline matrix of this run
TimelineBuilt == pc \in {"scatter", "done"}

AggregationSteps == {"exposure", "display", "timeline", "scatter"}

Artefacts ==
    {"exposure_table", "csv", "exposure_heatmaps", "timeline_heatmap", "scatter"}

\* a selection the run has made and found empty
ChoseNoClient == "select_clients" \in executed /\ selected_clients = {}
ChoseNoStock == "select_stocks" \in executed /\ selected_stocks = {}
ChoseNoProduct == "select_products" \in executed /\ selected_products = {}

InRange(v) == v.kind = "num" /\ 0 <= v.num /\ v.num <= 100 * v.den
TwoDecimals(v) == v.kind = "num" /\ (v.num * 100) % v.den = 0
IsZero(v) == v.kind = "num" /\ v.num = 0
Finite(v) == v.kind = "num"

\* the value d.dd as a rounded percentage, in hundredths
Pct(hundredths) == Num(hundredths, 100)

-----------------------------------------------------------------------------
(* C1: a run whose client, stock or included-products selection is empty   *)
(* ends in the validation halt: it shows the warning only, has executed no *)
(* aggregation step, has produced no table, CSV or heatmap, and is not in  *)
(* the error state.                                                        *)
C1_EmptySelectionHalts ==
    (ChoseNoClient \/ ChoseNoStock \/ ChoseNoProduct) =>
        /\ pc = "halted"
        /\ output = {"warning"}
        /\ executed \cap AggregationSteps = {}
        /\ exposure_df = {} /\ heatmap_pivot = {}

\* the included products were narrowed to none, clients and stocks chosen
C1_Witness ==
    /\ pc = "halted"
    /\ selected_clients # {} /\ selected_stocks # {}
    /\ products_maturing # {} /\ selected_products = {}

-----------------------------------------------------------------------------
(* C2: in every run that passes validation, every percentage of the        *)
(* exposure table is within [0, 100] and has two decimals.                 *)
C2_PercentagesInRange ==
    (PassedValidation /\ ExposureComputed) =>
        \A m \in exposure_df :
            /\ InRange(m.current) /\ TwoDecimals(m.current)
            /\ InRange(m.future) /\ TwoDecimals(m.future)

-----------------------------------------------------------------------------
\* the rounded Current Exposure % of the rows, summed, in hundredths
RECURSIVE SumCurrentPct(_)
SumCurrentPct(rows) ==
    IF rows = {} THEN 0
    ELSE LET m == CHOOSE x \in rows : TRUE
         IN  m.current.num + SumCurrentPct(rows \ {m})

Abs(x) == IF x < 0 THEN -x ELSE x

ClientRows(table, c) == {m \in table : m.client = c}

\* the clients of the filtered rows with a total other than 0
ClientsWithExposure ==
    {c \in Clients(filtered_df) :
        SumAmount({r \in filtered_df : r.client = c}) # 0}

(* C3 as stated: for every client of the filtered rows with a nonzero      *)
(* total, the rounded Current Exposure % of its stocks sum to a value      *)
(* between 99.99 and 100.01, however many stocks it holds.                 *)
C3_CurrentSumsTo100 ==
    ExposureComputed =>
        \A c \in ClientsWithExposure :
            Abs(SumCurrentPct(ClientRows(exposure_df, c)) - 10000) <= 1

(* C3 amended: for every client of the filtered rows with a nonzero total, *)
(* the rounded Current Exposure % of its stocks sum to 100 within 0.005    *)
(* per stock of the client in the table, which is within 0.01 for a client *)
(* of up to three stocks.                                                  *)
C3_CurrentSumsTo100PerStock ==
    ExposureComputed =>
        \A c \in ClientsWithExposure :
            LET table == ClientRows(exposure_df, c)
            IN  2 * Abs(SumCurrentPct(table) - 10000) <= Cardinality(table)

\* five stocks of amounts 1, 1, 1, 1, 3: four times 14.29 and 42.86
C3_Witness ==
    /\ pc = "done"
    /\ Cardinality(ClientRows(exposure_df, "ClientA")) = 5
    /\ SumCurrentPct(ClientRows(exposure_df, "ClientA")) = 10002

-----------------------------------------------------------------------------
(* C4: when a client's denominator is zero (the sum of its filtered rows   *)
(* for the current side, of its filtered rows outside the included         *)
(* products for the future side), that percentage is 0 for every stock of  *)
(* the client, and no value of the table is NaN or infinite.               *)
C4_ZeroDenominatorGivesZero ==
    ExposureComputed =>
        \A m \in exposure_df :
            /\ Finite(m.current) /\ Finite(m.future)
            /\ SumAmount({r \in filtered_df : r.client = m.client}) = 0
                  => IsZero(m.current)
            /\ SumAmount({r \in FutureRows(filtered_df, selected_products) :
                             r.client = m.client}) = 0
                  => IsZero(m.future)

-----------------------------------------------------------------------------
\* the rounded share of (client, stock) in the client's total over rows
Share(rows, c, s) ==
    Round2(PercentOf(SumAmount({r \in rows : r.client = c /\ r.stock = s}),
                     SumAmount({r \in rows : r.client = c})))

HasTotal(rows, c) == SumAmount({r \in rows : r.client = c}) # 0

\* the rows of the filtered set whose product is not an included one
NotIncluded == {r \in filtered_df : r.product \notin selected_products}

(* C5: the Current Exposure % of a (client, stock) is the stock's share of *)
(* the client's exposure over all filtered rows, the Future Exposure % its *)
(* share over the filtered rows whose product is not included (where the   *)
(* client's total is not 0); on the example table with ProdA included the  *)
(* table is StockX 50.00 / 0.00 and StockY 50.00 / 100.00.                 *)
C5_SharesOfCurrentAndFuture ==
    ExposureComputed =>
        /\ \A m \in exposure_df :
              /\ HasTotal(filtered_df, m.client) =>
                    m.current = Share(filtered_df, m.client, m.stock)
              /\ HasTotal(NotIncluded, m.client) =>
                    m.future = Share(NotIncluded, m.client, m.stock)
        /\ ( /\ df = ExampleDf
             /\ selected_clients = {"ClientA"}
             /\ selected_stocks = {"StockX", "StockY"}
             /\ selected_products = {"ProdA"} ) =>
              exposure_df =
                 {[client |-> "ClientA", stock |-> "StockX",
                   current |-> Pct(5000), future |-> Pct(0)],
                  [client |-> "ClientA", stock |-> "StockY",
                   current |-> Pct(5000), future |-> Pct(10000)]}

\* the example run has shown its table
C5_Witness ==
    /\ pc = "done"
    /\ df = ExampleDf
    /\ selected_clients = {"ClientA"}
    /\ selected_stocks = {"StockX", "StockY"}
    /\ selected_maturity_dates = <<2, 33>>
    /\ selected_products = {"ProdA"}
    /\ Cardinality(exposure_df) = 2

-----------------------------------------------------------------------------
RowKey(m) == <<m.client, m.stock>>

(* C6: the exposure table has exactly one row for each (client, stock) of  *)
(* the current or of the future aggregation and no other row, and a pair   *)
(* of one side only has 0 as the other side's percentage.                  *)
C6_OuterJoinKeepsEveryPair ==
    ExposureComputed =>
        /\ \A k \in Keys(current_exposure) \cup Keys(future_exposure) :
              Cardinality({m \in exposure_df : RowKey(m) = k}) = 1
        /\ \A m \in exposure_df :
              /\ RowKey(m) \in Keys(current_exposure) \cup Keys(future_exposure)
              /\ RowKey(m) \notin Keys(future_exposure) => m.future = Pct(0)
              /\ RowKey(m) \notin Keys(current_exposure) => m.current = Pct(0)

\* a pair of the current side only beside a pair of both sides
C6_Witness ==
    /\ pc = "done"
    /\ \E m \in exposure_df :
          /\ RowKey(m) \in Keys(current_exposure) \ Keys(future_exposure)
          /\ m.current = Pct(5000) /\ m.future = Pct(0)
    /\ \E m \in exposure_df : RowKey(m) \in Keys(future_exposure)

-----------------------------------------------------------------------------
\* the Mondays from the first to the last week of the filtered rows
FilteredWeeks ==
    LET mondays == {r.date - (r.date % 7) : r \in filtered_df}
    IN  {w \in Min(mondays)..Max(mondays) : w % 7 = 0}

CellsAt(s, w) == {c \in heatmap_pivot : c.stock = s /\ c.week = w}

-----------------------------------------------------------------------------
CurrentColumn(table) ==
    {[client |-> m.client, stock |-> m.stock, current |-> m.current] : m \in table}

(* C8: a run that makes the same client and stock selections as the run    *)
(* before it, over the same table, has the same filtered rows, the same    *)
(* Current Exposure % of every (client, stock) and the same timeline       *)
(* matrix, whatever the maturity windows and included products of the two  *)
(* runs are.                                                               *)
C8_SameSelectionsSameCurrent ==
    ( /\ prev.valid
      /\ prev.clients = selected_clients
      /\ prev.stocks = selected_stocks ) =>
        /\ "filter" \in executed => filtered_df = prev.filtered
        /\ ExposureComputed =>
              CurrentColumn(exposure_df) = CurrentColumn(prev.exposure)
        /\ TimelineBuilt => heatmap_pivot = prev.pivot

\* two runs of the same clients and stocks, of different windows and
\* included products, whose Future Exposure % differ
C8_Witness ==
    /\ pc = "done"
    /\ prev.valid
    /\ prev.clients = selected_clients
    /\ prev.stocks = selected_stocks
    /\ prev.window # selected_maturity_dates
    /\ prev.products # selected_products
    /\ prev.exposure # exposure_df

-----------------------------------------------------------------------------
(* C9: a run ends in the validation halt, with some selection empty, or    *)
(* with the complete output (exposure table and timeline matrix); it never *)
(* ends in an error.                                                       *)
C9_RunEndsHaltedOrComplete ==
    /\ pc # "error"
    /\ pc = "halted" => (ChoseNoClient \/ ChoseNoStock \/ ChoseNoProduct)
    /\ PassedValidation /\ "timeline" \in executed =>
          {"exposure_table", "timeline_heatmap"} \subseteq output

-----------------------------------------------------------------------------
\* a row of the loaded table matures in the chosen window
MaturesInWindow(r) ==
    /\ selected_maturity_dates[1] <= r.date
    /\ r.date <= selected_maturity_dates[2]

(* C10: the candidate products are the products of the rows of the whole   *)
(* loaded table, of any client and stock, that mature inside the inclusive *)
(* window, and the included products are among them; when no row of the    *)
(* loaded table matures inside the window the run halts at the guard and   *)
(* shows no exposure table.                                                *)
C10_CandidatesFromFullDataset ==
    "select_products" \in executed =>
        /\ products_maturing = {r.product : r \in {x \in df : MaturesInWindow(x)}}
        /\ selected_products \subseteq products_maturing
        /\ (~ \E r \in df : MaturesInWindow(r)) =>
              /\ selected_products = {}
              /\ pc = "halted"
              /\ "exposure_table" \notin output

\* a window inside the range of the dates in which nothing matures
C10_Witness ==
    /\ pc = "halted"
    /\ "select_products" \in executed
    /\ selected_maturity_dates = <<7, 7>>
    /\ df # {} /\ filtered_df # {}
    /\ products_maturing = {}

=============================================================================
